---------------------------- MODULE Spec2Model ----------------------------
(***************************************************************************)
(* Model of src/main.py: the Coinglass open-interest monitor.              *)
(*                                                                         *)
(*   Spec           one process run of analyze_and_notify / save_history / *)
(*                  send_feishu on a captured batch, against the history   *)
(*                  file left by earlier runs.                             *)
(*   SpecBrowser    run_browser and the on_data_received callback.         *)
(*   SpecDetect     detect() of the injected observation script.           *)
(*   SpecNormalize  the symbol normalisation of analyze_and_notify.        *)
(*                                                                         *)
(* Strings whose characters matter (symbols) are sequences of one-letter   *)
(* strings.  Floats are modelled by integers, and the ratio `change` by an *)
(* exact fraction [num, den]: with the small integers used here the float  *)
(* subtraction is exact and IEEE division is correctly rounded, so two     *)
(* ratios compare as floats exactly as the fractions compare.              *)
(***************************************************************************)
EXTENDS Integers, Sequences, FiniteSets, TLC

VARIABLES
    \* ---- Spec: one run of the analysis pipeline
    pc,           \* position of the process: "start", "save_open", "save_dump", "dispatch", "done"
    config,       \* result of load_config()
    file,         \* HISTORY_FILE on disk
    file0,        \* HISTORY_FILE as it was when the process started (history variable)
    raw_data,     \* the parsed payload returned by run_browser(), or NoCapture
    current_map,  \* analyze_and_notify: current_map (insertion-ordered)
    history_map,  \* analyze_and_notify: history_map
    alerts,       \* analyze_and_notify: alerts
    aborted,      \* the outer except of analyze_and_notify was taken
    sent,         \* the alert list handed to send_feishu, or <<>>
    posted,       \* the card handed to requests.post that was delivered
    printed,      \* lines written to stdout by send_feishu
    log,          \* logger.warning / logger.error events
    \* ---- SpecBrowser
    bpc,          \* position inside run_browser
    browser,      \* "none", "open", "closed"
    future,       \* data_captured: [state, value]
    delivered,    \* payloads passed to on_data_received, in call order (history variable)
    result,       \* what run_browser returned
    cb_error,     \* on_data_received raised
    \* ---- SpecDetect
    json,         \* the value JSON.parse returned
    captured,     \* the list handed to window.onCapturedData, or NoList
    dpc,          \* "parsed", "detected"
    \* ---- SpecNormalize
    sym_in,       \* raw symbol
    sym_once,     \* normalised once
    sym_twice,    \* normalised twice
    npc           \* "input", "normalized"

vars == << pc, config, file, file0, raw_data, current_map, history_map, alerts,
           aborted, sent, posted, printed, log,
           bpc, browser, future, delivered, result, cb_error,
           json, captured, dpc,
           sym_in, sym_once, sym_twice, npc >>

pipeVars    == << pc, config, file, file0, raw_data, current_map, history_map,
                  alerts, aborted, sent, posted, printed, log >>
browserVars == << bpc, browser, future, delivered, result, cb_error >>
detectVars  == << json, captured, dpc >>
normVars    == << sym_in, sym_once, sym_twice, npc >>

-----------------------------------------------------------------------------
(* Bounds *)

MaxBatch == 3        \* records of a captured batch that vary (the rest is padding)
MaxSymLen == 6       \* longest raw symbol of SpecNormalize
MaxCalls == 3        \* calls of on_data_received in one run_browser
MaxListLen == 6      \* longest list inside a sniffed payload

-----------------------------------------------------------------------------
(* Strings *)

Pair  == << "/", "U", "S", "D", "T" >>     \* '/USDT'
Quote == << "U", "S", "D", "T" >>          \* 'USDT'

IsPrefix(p, s) == Len(p) <= Len(s) /\ SubSeq(s, 1, Len(p)) = p

\* str.replace(old, ''): every non-overlapping occurrence, left to right
RECURSIVE Remove(_, _)
Remove(s, old) ==
    IF s = <<>> THEN <<>>
    ELSE IF IsPrefix(old, s) THEN Remove(SubSeq(s, Len(old) + 1, Len(s)), old)
    ELSE << Head(s) >> \o Remove(Tail(s), old)

\* symbol.replace('/USDT', '') + 'USDT'
Normalize(s) == Remove(s, Pair) \o Quote

-----------------------------------------------------------------------------
(* JSON values of a raw record, and the Python operations applied to them *)

Absent     == [k |-> "absent", n |-> 0, s |-> <<>>]   \* the key is missing
Null       == [k |-> "null",   n |-> 0, s |-> <<>>]   \* JSON null / Python None
Num(n)     == [k |-> "num",    n |-> n, s |-> <<>>]   \* a JSON number
NumStr(n)  == [k |-> "numstr", n |-> n, s |-> <<>>]   \* a string float() parses, e.g. "106"
BadStr     == [k |-> "badstr", n |-> 0, s |-> <<>>]   \* a string float() rejects, e.g. "abc"
Str(s)     == [k |-> "str",    n |-> 0, s |-> s]      \* a string of letters

\* item.get(key)
Get(item, key) == IF item[key].k = "absent" THEN Null ELSE item[key]

IsNone(v) == v.k = "null"

\* Python truthiness
Truthy(v) ==
    CASE v.k = "null"   -> FALSE
      [] v.k = "absent" -> FALSE
      [] v.k = "num"    -> v.n # 0
      [] v.k = "str"    -> v.s # <<>>
      [] OTHER          -> TRUE

\* a or b
PyOr(a, b) == IF Truthy(a) THEN a ELSE b

\* float(v): [ok, v]; ok = FALSE stands for ValueError / TypeError
Float(v) ==
    IF v.k \in {"num", "numstr"} THEN [ok |-> TRUE, v |-> v.n]
    ELSE [ok |-> FALSE, v |-> 0]

Abs(x) == IF x < 0 THEN -x ELSE x

-----------------------------------------------------------------------------
(* load_config *)

DefaultThreshold == [num |-> 5, den |-> 100]          \* 0.05
WideThreshold    == [num |-> 20, den |-> 100]         \* 0.20

\* config.json absent, or present with monitor_settings / feishu_webhook
Configs ==
    { [threshold |-> DefaultThreshold, min_oi_usdt |-> 0, webhook |-> FALSE],
      [threshold |-> DefaultThreshold, min_oi_usdt |-> 0, webhook |-> TRUE],
      [threshold |-> WideThreshold,    min_oi_usdt |-> 0, webhook |-> TRUE],
      [threshold |-> DefaultThreshold, min_oi_usdt |-> 105, webhook |-> TRUE] }

-----------------------------------------------------------------------------
(* analyze_and_notify, step 1: the current snapshot *)

Now == 2     \* datetime.now().timestamp() of this run; stored entries carry Now - 1

symbol_of(item) == PyOr(Get(item, "symbol"), Get(item, "uSymbol"))
oi_of(item)     == PyOr(Get(item, "openInterest"), Get(item, "oi"))
price_of(item)  ==
    PyOr(PyOr(PyOr(Get(item, "price"), Get(item, "lastPrice")), Get(item, "close")), Num(0))

\* `if symbol and oi is not None`
Resolved(item) == Truthy(symbol_of(item)) /\ ~IsNone(oi_of(item))

\* An exception that no inner handler catches: item.get on a non-object
\* (AttributeError), symbol.replace on a non-string (AttributeError).
Raises(item) ==
    \/ item.kind # "object"
    \/ Resolved(item) /\ symbol_of(item).k # "str"

\* The body of the inner try: [ok, entry]; ok = FALSE when float() raised or
\* the notional is below min_oi_usdt.
Coerce(item, cfg) ==
    LET oi_val    == Float(oi_of(item))
        price_val == Float(price_of(item))
        amount    == Float(item.openInterestAmount)
        has_amt   == item.openInterestAmount.k # "absent"
        derived   == IF price_val.v > 0 THEN oi_val.v * price_val.v ELSE 0
        oi_usdt   == IF has_amt THEN amount.v ELSE derived
        ok        == /\ oi_val.ok /\ price_val.ok
                     /\ (has_amt => amount.ok)
                     /\ oi_usdt >= cfg.min_oi_usdt
    IN  [ok |-> ok,
         entry |-> [symbol |-> Normalize(symbol_of(item).s),
                    oi |-> oi_val.v, price |-> price_val.v,
                    oi_usdt |-> oi_usdt, time |-> Now]]

Keys(map) == { map[i].symbol : i \in 1..Len(map) }

IndexOf(map, sym) == CHOOSE i \in 1..Len(map) : map[i].symbol = sym

\* current_map[symbol] = entry on an insertion-ordered dict
Put(map, entry) ==
    IF entry.symbol \in Keys(map)
    THEN [map EXCEPT ![IndexOf(map, entry.symbol)] = entry]
    ELSE Append(map, entry)

\* history_map[symbol]
Lookup(map, sym) == map[IndexOf(map, sym)]

\* the for loop over data_list: [raised, map]
RECURSIVE BuildMap(_, _, _)
BuildMap(items, map, cfg) ==
    IF items = <<>> THEN [raised |-> FALSE, map |-> map]
    ELSE LET item == Head(items)
         IN  IF Raises(item) THEN [raised |-> TRUE, map |-> map]
             ELSE IF Resolved(item) /\ Coerce(item, cfg).ok
                  THEN BuildMap(Tail(items), Put(map, Coerce(item, cfg).entry), cfg)
                  ELSE BuildMap(Tail(items), map, cfg)

-----------------------------------------------------------------------------
(* load_history / save_history: HISTORY_FILE *)

NoFile == [state |-> "absent", doc |-> <<>>]

\* json.load: a missing file and an unparseable document both give {}
load_history(f) == IF f.state = "complete" THEN f.doc ELSE <<>>

load_history_failed(f) == f.state \in {"empty", "partial"}

-----------------------------------------------------------------------------
(* analyze_and_notify, step 3: the alerts *)

Ratio(curr_oi, last_oi) == [num |-> curr_oi - last_oi, den |-> last_oi]

\* a mutant: a strict comparison
SignificantStrict(change, threshold) ==
    Abs(change.num) * threshold.den > threshold.num * change.den

\* abs(change_pct) >= CHANGE_THRESHOLD, for change.den > 0
Significant(change, threshold) ==
    Abs(change.num) * threshold.den >= threshold.num * change.den

\* the body of the diff loop for one symbol: << >> or << alert >>
AlertFor(curr, hist, threshold) ==
    IF curr.symbol \notin Keys(hist) THEN <<>>
    ELSE LET last_oi == Lookup(hist, curr.symbol).oi
             change  == Ratio(curr.oi, last_oi)
         IN  IF last_oi <= 0 THEN <<>>
             ELSE IF Significant(change, threshold)
                  THEN << [symbol |-> curr.symbol, oi |-> curr.oi,
                           oi_usdt |-> curr.oi_usdt, price |-> curr.price,
                           change |-> change,
                           trend |-> IF change.num > 0 THEN "up" ELSE "down",
                           prev_oi |-> last_oi] >>
                  ELSE <<>>

RECURSIVE Diff(_, _, _)
Diff(curr, hist, threshold) ==
    IF curr = <<>> THEN <<>>
    ELSE AlertFor(Head(curr), hist, threshold) \o Diff(Tail(curr), hist, threshold)

\* abs(a.change) < abs(b.change), both denominators positive
Smaller(a, b) == Abs(a.change.num) * b.change.den < Abs(b.change.num) * a.change.den

\* one insertion of a stable descending sort: after every element not smaller
RECURSIVE Insert(_, _)
Insert(sorted, a) ==
    IF sorted = <<>> THEN << a >>
    ELSE IF Smaller(Head(sorted), a) THEN << a >> \o sorted
    ELSE << Head(sorted) >> \o Insert(Tail(sorted), a)

RECURSIVE SortFrom(_, _)
SortFrom(sorted, rest) ==
    IF rest = <<>> THEN sorted ELSE SortFrom(Insert(sorted, Head(rest)), Tail(rest))

Reverse(s) == [i \in 1..Len(s) |-> s[Len(s) + 1 - i]]

\* a mutant: sort ascending, then reverse (ties come out reversed)
RECURSIVE InsertAsc(_, _)
InsertAsc(sorted, a) ==
    IF sorted = <<>> THEN << a >>
    ELSE IF Smaller(a, Head(sorted)) THEN << a >> \o sorted
    ELSE << Head(sorted) >> \o InsertAsc(Tail(sorted), a)

RECURSIVE SortAscFrom(_, _)
SortAscFrom(sorted, rest) ==
    IF rest = <<>> THEN sorted ELSE SortAscFrom(InsertAsc(sorted, Head(rest)), Tail(rest))

SortReversed(a) == Reverse(SortAscFrom(<<>>, a))

\* alerts.sort(key=lambda x: abs(x['change']), reverse=True)
SortAlerts(a) == SortFrom(<<>>, a)

-----------------------------------------------------------------------------
(* send_feishu *)

PrintTop == 5      \* alerts[:5]
CardTop  == 20     \* alerts[:20]

Min(a, b) == IF a < b THEN a ELSE b

Take(s, n) == SubSeq(s, 1, Min(n, Len(s)))

\* the stdout lines of the no-webhook branch
Summary(a) ==
    [i \in 1..Len(Take(a, PrintTop)) |->
        [trend |-> a[i].trend, symbol |-> a[i].symbol,
         change |-> a[i].change, oi_usdt |-> a[i].oi_usdt]]

\* the interactive card
Card(a) ==
    [template |-> IF a[1].change.num > 0 THEN "orange" ELSE "indigo",
     lines |-> [i \in 1..Len(Take(a, CardTop)) |->
                  [trend |-> a[i].trend, symbol |-> Remove(a[i].symbol, Quote),
                   link |-> a[i].symbol, change |-> a[i].change,
                   oi_usdt |-> a[i].oi_usdt]],
     more |-> IF Len(a) > CardTop THEN Len(a) - CardTop ELSE 0]

\* a mutant: the except branch also prints the local summary
post_failed_with_fallback(a) ==
    [printed |-> Summary(a), log |-> {"push_failed"}]

\* except Exception of requests.post: logger.error only
post_failed(a) ==
    [printed |-> <<>>, log |-> {"push_failed"}]

-----------------------------------------------------------------------------
(* The inputs of one run *)

A == << "A" >>
B == << "B" >>
C == << "C" >>
D == << "D" >>

Obj ==
    [kind |-> "object", symbol |-> Absent, uSymbol |-> Absent,
     openInterest |-> Absent, oi |-> Absent, price |-> Absent,
     lastPrice |-> Absent, close |-> Absent, openInterestAmount |-> Absent]

Rec(sym, v) ==
    [Obj EXCEPT !.symbol = Str(sym), !.openInterest = Num(v), !.price = Num(1)]

\* records that normalise
GoodRecords ==
    { Rec(A, 106), Rec(A, 104), Rec(A, 120), Rec(B, 80), Rec(C, 110),
      \* fallback field names, a pair-separated symbol, an explicit notional
      [Obj EXCEPT !.uSymbol = Str(A \o Pair), !.oi = NumStr(106),
                  !.lastPrice = Num(2), !.openInterestAmount = Num(500)] }

\* records the claims call rejected: symbol or oi unresolved, oi or price not numeric
NoSymbol == [Obj EXCEPT !.openInterest = Num(120), !.price = Num(1)]
NoOI     == [Obj EXCEPT !.symbol = Str(B), !.price = Num(1)]
BadOI    == [Rec(B, 0) EXCEPT !.openInterest = BadStr]
BadPrice == [Rec(C, 110) EXCEPT !.price = BadStr]
NullItem == [Obj EXCEPT !.kind = "null"]                        \* JSON null in the list
NumSymbol == [Obj EXCEPT !.symbol = Num(7), !.openInterest = Num(100)]

RejectedRecords == { NoSymbol, NoOI, BadOI, BadPrice, NullItem, NumSymbol }

RawRecords == GoodRecords \cup RejectedRecords

RECURSIVE SeqsUpTo(_, _)
SeqsUpTo(S, n) ==
    IF n = 0 THEN { <<>> }
    ELSE LET shorter == SeqsUpTo(S, n - 1)
         IN  shorter \cup { Append(s, x) : s \in { q \in shorter : Len(q) = n - 1 }, x \in S }

\* detect() only hands over lists of at least MinListLen elements whose first
\* element is an object with a symbol and an open-interest key: every batch is
\* the varying records framed by a well-formed record of an instrument D.
MinListLen == 5
Pad == Rec(D, 100)

Batch(v) ==
    << Pad >> \o v \o
    [i \in 1..(IF Len(v) + 1 < MinListLen THEN MinListLen - 1 - Len(v) ELSE 0) |-> Pad]

Batches == { Batch(v) : v \in SeqsUpTo(RawRecords, MaxBatch) }

\* an entry save_history wrote in an earlier run
Stored(sym, v) ==
    [symbol |-> Normalize(sym), oi |-> v, price |-> 1, oi_usdt |-> v, time |-> Now - 1]

StoredFiles ==
    { NoFile,
      [state |-> "complete", doc |-> << Stored(A, 100), Stored(B, 100),
                                        Stored(C, 100), Stored(D, 100) >>],
      [state |-> "complete", doc |-> << Stored(C, 0), Stored(A, 100) >>],
      \* left by a run that was interrupted while it saved
      [state |-> "partial", doc |-> << Stored(A, 100) >>] }

NoCapture == [captured |-> FALSE, list |-> <<>>]

-----------------------------------------------------------------------------
(* Idle values of the variables a specification does not use *)

PipeIdle ==
    /\ pc = "idle" /\ config = [threshold |-> DefaultThreshold, min_oi_usdt |-> 0, webhook |-> FALSE]
    /\ file = NoFile /\ file0 = NoFile /\ raw_data = NoCapture
    /\ current_map = <<>> /\ history_map = <<>> /\ alerts = <<>>
    /\ aborted = FALSE /\ sent = <<>> /\ posted = <<>> /\ printed = <<>> /\ log = {}

BrowserIdle ==
    /\ bpc = "idle" /\ browser = "none"
    /\ future = [state |-> "none", value |-> 0]
    /\ delivered = <<>> /\ result = [kind |-> "running", value |-> 0, nav |-> "none"]
    /\ cb_error = FALSE

DetectIdle == json = [top |-> "idle"] /\ captured = <<>> /\ dpc = "idle"

NormIdle == sym_in = <<>> /\ sym_once = <<>> /\ sym_twice = <<>> /\ npc = "idle"

-----------------------------------------------------------------------------
(* Spec: one run of the process, from the capture on *)

Init ==
    /\ pc = "start"
    /\ config \in Configs
    /\ file \in StoredFiles
    /\ file0 = file
    /\ raw_data = NoCapture
    /\ current_map = <<>> /\ history_map = <<>> /\ alerts = <<>>
    /\ aborted = FALSE /\ sent = <<>> /\ posted = <<>> /\ printed = <<>> /\ log = {}
    /\ BrowserIdle /\ DetectIdle /\ NormIdle

\* run_browser() returned None: `if raw_data:` is false
main_no_capture ==
    /\ pc = "start"
    /\ pc' = "done"
    /\ UNCHANGED << config, file, file0, raw_data, current_map, history_map, alerts,
                    aborted, sent, posted, printed, log >>
    /\ UNCHANGED << browserVars, detectVars, normVars >>

\* analyze_and_notify up to the call of save_history
analyze_and_notify ==
    /\ pc = "start"
    /\ \E data_list \in Batches :
         LET built == BuildMap(data_list, <<>>, config)
         IN  /\ raw_data' = [captured |-> TRUE, list |-> data_list]
             /\ IF built.raised
                THEN \* except Exception at the end of analyze_and_notify
                     /\ aborted' = TRUE
                     /\ log' = log \cup {"parse_error"}
                     /\ pc' = "done"
                     /\ UNCHANGED << current_map, history_map, alerts >>
                ELSE /\ current_map' = built.map
                     /\ history_map' = load_history(file)
                     /\ log' = IF load_history_failed(file)
                               THEN log \cup {"history_unreadable"} ELSE log
                     /\ alerts' = Diff(built.map, load_history(file), config.threshold)
                     /\ pc' = "save_open"
                     /\ UNCHANGED aborted
    /\ UNCHANGED << config, file, file0, sent, posted, printed >>
    /\ UNCHANGED << browserVars, detectVars, normVars >>

\* save_history: open(HISTORY_FILE, "w") truncates the file, or raises
save_history_open ==
    /\ pc = "save_open"
    /\ \/ /\ file' = [state |-> "empty", doc |-> <<>>]
          /\ pc' = "save_dump"
          /\ UNCHANGED log
       \/ /\ log' = log \cup {"save_failed"}
          /\ pc' = "dispatch"
          /\ UNCHANGED file
    /\ UNCHANGED << config, file0, raw_data, current_map, history_map, alerts,
                    aborted, sent, posted, printed >>
    /\ UNCHANGED << browserVars, detectVars, normVars >>

\* save_history: json.dump writes the document, or raises part-way
save_history_dump ==
    /\ pc = "save_dump"
    /\ \/ /\ file' = [state |-> "complete", doc |-> current_map]
          /\ UNCHANGED log
       \/ \E k \in 0..Len(current_map) :
             /\ k < Len(current_map) \/ k = 0
             /\ file' = [state |-> "partial", doc |-> SubSeq(current_map, 1, k)]
             /\ log' = log \cup {"save_failed"}
    /\ pc' = "dispatch"
    /\ UNCHANGED << config, file0, raw_data, current_map, history_map, alerts,
                    aborted, sent, posted, printed >>
    /\ UNCHANGED << browserVars, detectVars, normVars >>

\* the process is killed between the open and the end of json.dump
interrupt ==
    /\ pc = "save_dump"
    /\ pc' = "killed"
    /\ UNCHANGED << config, file, file0, raw_data, current_map, history_map, alerts,
                    aborted, sent, posted, printed, log >>
    /\ UNCHANGED << browserVars, detectVars, normVars >>

\* analyze_and_notify step 5 and send_feishu
notify ==
    /\ pc = "dispatch"
    /\ pc' = "done"
    /\ IF alerts = <<>>
       THEN /\ log' = log \cup {"no_change"}
            /\ UNCHANGED << sent, posted, printed >>
       ELSE LET a == SortAlerts(alerts)
            IN  /\ sent' = a
                /\ IF ~config.webhook
                   THEN /\ log' = log \cup {"no_webhook"}
                        /\ printed' = Summary(a)
                        /\ UNCHANGED posted
                   ELSE \/ /\ posted' = << Card(a) >>
                           /\ log' = log \cup {"pushed"}
                           /\ UNCHANGED printed
                        \/ /\ printed' = post_failed(a).printed
                           /\ log' = log \cup post_failed(a).log
                           /\ UNCHANGED posted
    /\ UNCHANGED << config, file, file0, raw_data, current_map, history_map, alerts, aborted >>
    /\ UNCHANGED << browserVars, detectVars, normVars >>

Next ==
    \/ main_no_capture
    \/ analyze_and_notify
    \/ save_history_open
    \/ save_history_dump
    \/ interrupt
    \/ notify

Spec == Init /\ [][Next]_vars

-----------------------------------------------------------------------------
(* Claims checked under Spec *)

Analysed == raw_data.captured /\ ~aborted /\ pc # "start"

HasAlert(sym) == \E i \in 1..Len(alerts) : alerts[i].symbol = sym

PrevOf(sym) == history_map[CHOOSE i \in 1..Len(history_map) : history_map[i].symbol = sym]
CurrOf(sym) == current_map[CHOOSE i \in 1..Len(current_map) : current_map[i].symbol = sym]

InBoth(sym) ==
    /\ \E i \in 1..Len(current_map) : current_map[i].symbol = sym
    /\ \E i \in 1..Len(history_map) : history_map[i].symbol = sym

\* C1: the alert list holds a symbol iff the symbol is a key of the current and
\* of the previous snapshot, the previous oi is > 0 and
\* |(current.oi - previous.oi) / previous.oi| >= threshold; the alert's change
\* is that signed ratio.  At threshold 0.05, 100 -> 106 alerts with change
\* 0.06 and 100 -> 104 does not.
C1_AlertIff ==
    Analysed =>
      /\ history_map = (IF file0.state = "complete" THEN file0.doc ELSE <<>>)
      /\ \A sym \in Keys(current_map) \cup Keys(history_map) :
            HasAlert(sym) <=>
               /\ InBoth(sym)
               /\ PrevOf(sym).oi > 0
               /\ Abs(CurrOf(sym).oi - PrevOf(sym).oi) * config.threshold.den
                     >= config.threshold.num * PrevOf(sym).oi
      /\ \A i \in 1..Len(alerts) :
            /\ alerts[i].change.den > 0
            /\ alerts[i].change.num * PrevOf(alerts[i].symbol).oi
                  = (CurrOf(alerts[i].symbol).oi - PrevOf(alerts[i].symbol).oi)
                      * alerts[i].change.den
      /\ \A sym \in Keys(current_map) :
            (InBoth(sym) /\ PrevOf(sym).oi = 100 /\ config.threshold = DefaultThreshold) =>
               /\ CurrOf(sym).oi = 106 =>
                     \E i \in 1..Len(alerts) :
                        /\ alerts[i].symbol = sym
                        /\ alerts[i].change.num * 100 = 6 * alerts[i].change.den
               /\ CurrOf(sym).oi = 104 => ~HasAlert(sym)

\* C1 witness: at threshold 0.05 a run alerts on A (100 -> 106) while the
\* capture also holds C, stored with oi 0, and B, not stored at all.
C1_Witness ==
    /\ Analysed
    /\ config.threshold = DefaultThreshold
    /\ \E i \in 1..Len(alerts) :
          alerts[i].symbol = Normalize(A) /\ alerts[i].oi = 106 /\ alerts[i].prev_oi = 100
    /\ Normalize(C) \in Keys(current_map) /\ Normalize(C) \in Keys(history_map)
    /\ PrevOf(Normalize(C)).oi = 0
    /\ Normalize(B) \in Keys(current_map) /\ Normalize(B) \notin Keys(history_map)

\* C2: in every run in which a payload was captured and handed to
\* analyze_and_notify, the stored snapshot ends up replaced as a whole by the
\* snapshot built from that capture.
C2_StoreReplaced ==
    (pc = "done" /\ raw_data.captured) =>
        /\ ~aborted
        /\ file = [state |-> "complete", doc |-> current_map]

\* what the claim calls a rejected record: no symbol string or no oi can be
\* resolved, or oi / price does not coerce to a number
Unresolvable(item) ==
    \/ item.kind # "object"
    \/ symbol_of(item).k # "str" \/ symbol_of(item).s = <<>>
    \/ IsNone(oi_of(item))

NotNumeric(item) == ~Float(oi_of(item)).ok \/ ~Float(price_of(item)).ok

RECURSIVE Accepted(_)
Accepted(items) ==
    IF items = <<>> THEN <<>>
    ELSE IF Unresolvable(Head(items)) \/ NotNumeric(Head(items))
         THEN Accepted(Tail(items))
         ELSE << Head(items) >> \o Accepted(Tail(items))

\* C4: a record whose symbol or oi cannot be resolved, or whose oi or price
\* fails numeric coercion, is dropped without aborting the run, and the
\* sibling records are normalised as if the rejected record were absent.
C4_RejectedDropped ==
    (raw_data.captured /\ pc # "start") =>
        /\ ~aborted
        /\ current_map = BuildMap(Accepted(raw_data.list), <<>>, config).map

Position(sym) == CHOOSE i \in 1..Len(current_map) : current_map[i].symbol = sym

\* C6: the alerts handed to the dispatcher are the computed alerts ordered by
\* |change| descending, and alerts of equal |change| keep the order in which
\* their symbols were met in the current snapshot.
C6_StableDescending ==
    (pc = "done" /\ sent # <<>>) =>
        /\ Len(sent) = Len(alerts)
        /\ \A i \in 1..Len(alerts) : \E j \in 1..Len(sent) : sent[j] = alerts[i]
        /\ \A i, j \in 1..Len(sent) :
              i < j =>
                 /\ Abs(sent[i].change.num) * sent[j].change.den
                       >= Abs(sent[j].change.num) * sent[i].change.den
                 /\ (Abs(sent[i].change.num) * sent[j].change.den
                        = Abs(sent[j].change.num) * sent[i].change.den)
                    => Position(sent[i].symbol) < Position(sent[j].symbol)

\* C6 witness: changes +0.20, -0.20, +0.10 met on A, B, C are dispatched as A, B, C.
C6_Witness ==
    /\ pc = "done"
    /\ Len(sent) = 3
    /\ sent[1].symbol = Normalize(A) /\ sent[1].change = [num |-> 20, den |-> 100]
    /\ sent[2].symbol = Normalize(B) /\ sent[2].change = [num |-> -20, den |-> 100]
    /\ sent[3].symbol = Normalize(C) /\ sent[3].change = [num |-> 10, den |-> 100]
    /\ Position(Normalize(A)) < Position(Normalize(B))

PostFailed == pc = "done" /\ config.webhook /\ sent # <<>> /\ "push_failed" \in log

\* C7 as stated: when the webhook is configured and the POST of a non-empty
\* alert list fails, the failure is caught and logged, the run is not aborted,
\* and the alerts are written to the local summary output.
C7_FallbackToSummary ==
    PostFailed => (~aborted /\ "parse_error" \notin log /\ printed # <<>>)

\* C7 amended: the failure is caught and logged and the run is not aborted;
\* nothing is written to the local summary output and no card is delivered.
C7_LoggedOnly ==
    /\ PostFailed => (~aborted /\ "parse_error" \notin log /\ printed = <<>> /\ posted = <<>>)
    /\ (pc = "done" /\ printed # <<>>) => ~config.webhook

\* C7 witness: a run whose POST failed
C7_Witness == PostFailed /\ Len(sent) >= 2

\* C8: after save_history, or after an interruption inside it, the history
\* file holds either exactly the previous document or exactly the complete
\* new snapshot.
C8_AtomicReplace ==
    (pc \in {"dispatch", "done", "killed"} /\ raw_data.captured /\ ~aborted) =>
        \/ file = file0
        \/ file = [state |-> "complete", doc |-> current_map]

-----------------------------------------------------------------------------
(* SpecNormalize: the symbol normalisation applied to any raw symbol *)

Alphabet == { "A", "/", "U", "S", "D", "T" }

InitNormalize ==
    /\ sym_in \in SeqsUpTo(Alphabet, MaxSymLen)
    /\ sym_once = <<>> /\ sym_twice = <<>> /\ npc = "input"
    /\ PipeIdle /\ BrowserIdle /\ DetectIdle

\* the normalisation applied to a raw symbol, and again to its own output
normalize_symbol ==
    /\ npc = "input"
    /\ sym_once' = Normalize(sym_in)
    /\ sym_twice' = Normalize(Normalize(sym_in))
    /\ npc' = "normalized"
    /\ UNCHANGED sym_in
    /\ UNCHANGED << pipeVars, browserVars, detectVars >>

NextNormalize == normalize_symbol

SpecNormalize == InitNormalize /\ [][NextNormalize]_vars

\* C5: symbol normalisation is idempotent: normalize(normalize(s)) = normalize(s).
C5_Idempotent == npc = "normalized" => sym_twice = sym_once

-----------------------------------------------------------------------------
(* SpecDetect: the JSON.parse hook of INJECT_JS *)

\* elements a list may start with: objects (their key sets), null, a number
Elements ==
    { [t |-> "object", keys |-> {"symbol", "openInterest", "price"}],
      [t |-> "object", keys |-> {"uSymbol", "oiAmount"}],
      [t |-> "object", keys |-> {"symbol", "price"}],
      [t |-> "object", keys |-> {"oi"}],
      [t |-> "null", keys |-> {}],
      [t |-> "number", keys |-> {}] }

Filler == [t |-> "object", keys |-> {"symbol", "oi"}]

ListOf(first, n) == [i \in 1..n |-> IF i = 1 THEN first ELSE Filler]

Lists == { ListOf(first, n) : first \in Elements, n \in 0..MaxListLen }

\* a property of a JSON object: missing, an array, or a primitive
NoProp      == [k |-> "absent", arr |-> <<>>]
Prim        == [k |-> "primitive", arr |-> <<>>]
ArrProp(l)  == [k |-> "array", arr |-> l]
Props       == { NoProp, Prim } \cup { ArrProp(l) : l \in Lists }

\* json.data may also be an object with a property list
DataProps ==
    { [k |-> p.k, arr |-> p.arr, list |-> NoProp] : p \in Props }
    \cup { [k |-> "object", arr |-> <<>>, list |-> p] : p \in Props }

Payloads ==
    { [top |-> "array", arr |-> l, data |-> [k |-> "absent", arr |-> <<>>, list |-> NoProp],
       list |-> NoProp, long |-> long] : l \in Lists, long \in BOOLEAN }
    \cup
    { [top |-> "object", arr |-> <<>>, data |-> d, list |-> p, long |-> long] :
         d \in DataProps, p \in Props, long \in BOOLEAN }

NoList == [found |-> FALSE, list |-> <<>>]

\* the else-if chain of detect(): the first shape that is an array
pick(j) ==
    IF j.top = "array" THEN [found |-> TRUE, list |-> j.arr]
    ELSE IF j.data.k = "array" THEN [found |-> TRUE, list |-> j.data.arr]
    ELSE IF j.list.k = "array" THEN [found |-> TRUE, list |-> j.list.arr]
    ELSE IF j.data.k = "object" /\ j.data.list.k = "array"
         THEN [found |-> TRUE, list |-> j.data.list.arr]
    ELSE NoList

\* the fingerprint test of detect()
fingerprint(l) ==
    /\ Len(l) >= MinListLen
    /\ l[1].t = "object"
    /\ ("symbol" \in l[1].keys \/ "uSymbol" \in l[1].keys)
    /\ ("openInterest" \in l[1].keys \/ "oi" \in l[1].keys \/ "oiAmount" \in l[1].keys)

\* detect(json): the list handed to window.onCapturedData, or NoList
detect(j) ==
    LET p == pick(j)
    IN  IF p.found /\ fingerprint(p.list) THEN p ELSE NoList

InitDetect ==
    /\ json \in Payloads
    /\ captured = NoList /\ dpc = "parsed"
    /\ PipeIdle /\ BrowserIdle /\ NormIdle

\* the wrapped JSON.parse: detect(result) for texts longer than 500 characters
json_parse ==
    /\ dpc = "parsed"
    /\ captured' = IF json.long THEN detect(json) ELSE NoList
    /\ dpc' = "detected"
    /\ UNCHANGED json
    /\ UNCHANGED << pipeVars, browserVars, normVars >>

NextDetect == json_parse

SpecDetect == InitDetect /\ [][NextDetect]_vars

\* the four nesting shapes in priority order: << present, list >>
Shapes(j) ==
    << [present |-> j.top = "array", list |-> j.arr],
       [present |-> j.top = "object" /\ j.data.k = "array", list |-> j.data.arr],
       [present |-> j.top = "object" /\ j.list.k = "array", list |-> j.list.arr],
       [present |-> j.top = "object" /\ j.data.k = "object" /\ j.data.list.k = "array",
        list |-> j.data.list.arr] >>

QualifiesAt(j, i) == Shapes(j)[i].present /\ fingerprint(Shapes(j)[i].list)

\* C9: the list extracted is that of the highest-priority shape that
\* satisfies the fingerprint test; a higher-priority shape that is present but
\* fails the test does not prevent a lower-priority qualifying shape.
C9_FirstQualifyingShape ==
    (dpc = "detected" /\ json.long) =>
        \A i \in 1..4 :
            (QualifiesAt(json, i) /\ \A h \in 1..(i - 1) : ~QualifiesAt(json, h))
               => captured = [found |-> TRUE, list |-> Shapes(json)[i].list]

-----------------------------------------------------------------------------
(* SpecBrowser: run_browser and on_data_received *)

NoFuture == [state |-> "none", value |-> 0]
Running  == [kind |-> "running", value |-> 0, nav |-> "none"]

\* a mutant: set_result without the done() check
on_data_received_unguarded(json_str, fut) ==
    [future |-> [state |-> "result", value |-> json_str], error |-> fut.state = "cancelled"]

\* on_data_received(json_str, future)
on_data_received(json_str, fut) ==
    IF fut.state = "pending"
    THEN [future |-> [state |-> "result", value |-> json_str], error |-> FALSE]
    ELSE [future |-> fut, error |-> FALSE]

\* a mutant: leaving the `async with` block does not touch the browser
playwright_exit_keeps_browser(b) == b

\* leaving `async with async_playwright()`: the Playwright driver is stopped,
\* which ends every browser it launched that is still open
playwright_exit(b) == IF b = "open" THEN "closed" ELSE b

InitBrowser ==
    /\ bpc = "launch" /\ browser = "none" /\ future = NoFuture
    /\ delivered = <<>> /\ result = Running /\ cb_error = FALSE
    /\ PipeIdle /\ DetectIdle /\ NormIdle

\* an exception leaves the `async with` body
Raise ==
    /\ result' = [result EXCEPT !.kind = "error"]
    /\ bpc' = "exit"

\* p.chromium.launch
launch ==
    /\ bpc = "launch"
    /\ \/ browser' = "open" /\ bpc' = "new_context" /\ UNCHANGED result
       \/ Raise /\ UNCHANGED browser
    /\ UNCHANGED << future, delivered, cb_error >>
    /\ UNCHANGED << pipeVars, detectVars, normVars >>

\* browser.new_context
new_context ==
    /\ bpc = "new_context"
    /\ \/ bpc' = "new_page" /\ UNCHANGED result
       \/ Raise
    /\ UNCHANGED << browser, future, delivered, cb_error >>
    /\ UNCHANGED << pipeVars, detectVars, normVars >>

\* context.new_page
new_page ==
    /\ bpc = "new_page"
    /\ \/ bpc' = "expose_function" /\ UNCHANGED result
       \/ Raise
    /\ UNCHANGED << browser, future, delivered, cb_error >>
    /\ UNCHANGED << pipeVars, detectVars, normVars >>

\* data_captured = asyncio.Future(); page.expose_function("onCapturedData", ...)
expose_function ==
    /\ bpc = "expose_function"
    /\ future' = [state |-> "pending", value |-> 0]
    /\ \/ bpc' = "add_init_script" /\ UNCHANGED result
       \/ Raise
    /\ UNCHANGED << browser, delivered, cb_error >>
    /\ UNCHANGED << pipeVars, detectVars, normVars >>

\* page.add_init_script(INJECT_JS)
add_init_script ==
    /\ bpc = "add_init_script"
    /\ \/ bpc' = "goto" /\ UNCHANGED result
       \/ Raise
    /\ UNCHANGED << browser, future, delivered, cb_error >>
    /\ UNCHANGED << pipeVars, detectVars, normVars >>

\* page.goto: an exception is swallowed
goto ==
    /\ bpc = "goto"
    /\ \E outcome \in {"ok", "error"} : result' = [result EXCEPT !.nav = outcome]
    /\ bpc' = "wait"
    /\ UNCHANGED << browser, future, delivered, cb_error >>
    /\ UNCHANGED << pipeVars, detectVars, normVars >>

\* the page calls window.onCapturedData while the event loop runs: during
\* the navigation, the wait or the close
captured_data ==
    /\ bpc \in {"goto", "wait", "close"}
    /\ browser = "open"
    /\ Len(delivered) < MaxCalls
    /\ \E json_str \in 1..MaxCalls :
          /\ delivered' = Append(delivered, json_str)
          /\ future' = on_data_received(json_str, future).future
          /\ cb_error' = (cb_error \/ on_data_received(json_str, future).error)
    /\ UNCHANGED << bpc, browser, result >>
    /\ UNCHANGED << pipeVars, detectVars, normVars >>

\* asyncio.wait_for(data_captured, 50.0): the result, the timeout, or another error
wait_for ==
    /\ bpc = "wait"
    /\ \/ /\ future.state = "result"
          /\ result' = [result EXCEPT !.kind = "value", !.value = future.value]
          /\ UNCHANGED future
       \/ /\ future.state = "pending"
          /\ future' = [state |-> "cancelled", value |-> 0]
          /\ result' = [result EXCEPT !.kind = "none"]
       \/ /\ future' = IF future.state = "pending"
                       THEN [state |-> "cancelled", value |-> 0] ELSE future
          /\ result' = [result EXCEPT !.kind = "error"]
    /\ bpc' = "close"
    /\ UNCHANGED << browser, delivered, cb_error >>
    /\ UNCHANGED << pipeVars, detectVars, normVars >>

\* finally: await browser.close()
browser_close ==
    /\ bpc = "close"
    /\ \/ browser' = "closed" /\ UNCHANGED result
       \/ result' = [result EXCEPT !.kind = "error"] /\ UNCHANGED browser
    /\ bpc' = "exit"
    /\ UNCHANGED << future, delivered, cb_error >>
    /\ UNCHANGED << pipeVars, detectVars, normVars >>

\* the end of the `async with` block: run_browser returns or raises
exit_async_with ==
    /\ bpc = "exit"
    /\ browser' = playwright_exit(browser)
    /\ bpc' = "returned"
    /\ UNCHANGED << future, delivered, result, cb_error >>
    /\ UNCHANGED << pipeVars, detectVars, normVars >>

NextBrowser ==
    \/ launch
    \/ new_context
    \/ new_page
    \/ expose_function
    \/ add_init_script
    \/ goto
    \/ captured_data
    \/ wait_for
    \/ browser_close
    \/ exit_async_with

SpecBrowser == InitBrowser /\ [][NextBrowser]_vars

=============================================================================
